---- MODULE Spec2Model ----
(***************************************************************************)
(* Model of plot_smart_money_sr (src/app.py, lines 382-555): the swing     *)
(* extractor, the break filter, the marker annotations, the level          *)
(* clusterer, the segment emission and the results table.                  *)
(*                                                                         *)
(* Prices are integers.  The two fractional constants of the code are kept *)
(* exact by clearing denominators: tolerance = 0.01 * mean(close) is used  *)
(* only in  abs(level - price) < tolerance,  modelled as                   *)
(*    TolDen * N * |level - price| < sum(close);                           *)
(* a marker's  y = high + height * 0.2  is kept as  OffsetDen * y.         *)
(* Bar indices are 0-based as in the code; At(s, i) reads s[i].            *)
(***************************************************************************)
EXTENDS Integers, Sequences, FiniteSets, TLC

\* ------------------------------------------------------------------ bounds
MaxN == 6

\* left / right window sizes tried (the sidebar sliders give 1..20)
Windows == {1, 2}

\* The bar shapes the input sequences are built from: a wide bar and a
\* narrower bar that close at 0 (a mean close of 0 needs every bar to close
\* at 0), and two bars around 200 whose highs and lows are 1 or 2 apart
\* (inside or outside 1% of the mean close, depending on the other bars).
BarAlphabet ==
    { [high |-> 203, low |-> 0,   close |-> 0],
      [high |-> 201, low |-> 0,   close |-> 0],
      [high |-> 201, low |-> 200, close |-> 200],
      [high |-> 202, low |-> 201, close |-> 202] }

\* ------------------------------------------------------- program constants
\* tolerance = 0.01 * df['Close'].mean()
TolDen == 100
\* offset_ratio = 0.2
OffsetDen == 5
\* len(blocks) >= 2
MinTouches == 2
\* the '4h' interval, in minutes
IntervalMinutes == 240

\* ---------------------------------------------------------- Python helpers
Abs(x) == IF x < 0 THEN 0 - x ELSE x

\* s[i], a negative i counting from the end
At(s, i) == IF i < 0 THEN s[i + Len(s) + 1] ELSE s[i + 1]

\* a slice bound as Python normalises it against a sequence of length n
SliceBound(k, n) == IF k < 0 THEN (IF k + n < 0 THEN 0 ELSE k + n)
                    ELSE (IF k > n THEN n ELSE k)

\* s[a:b]
PySlice(s, a, b) ==
    LET lo == SliceBound(a, Len(s))
        hi == SliceBound(b, Len(s))
    IN  IF lo >= hi THEN << >> ELSE SubSeq(s, lo + 1, hi)

\* a range that includes its stop value
PyRangeInclusive(a, b) == IF a > b THEN << >> ELSE [k \in 1..(b - a + 1) |-> a + k - 1]

\* list(range(a, b))
PyRange(a, b) == IF a >= b THEN << >> ELSE [k \in 1..(b - a) |-> a + k - 1]

\* max / min of a non-empty sequence
SeqMax(s) == CHOOSE m \in {s[k] : k \in 1..Len(s)} :
                 \A k \in 1..Len(s) : s[k] <= m
SeqMin(s) == CHOOSE m \in {s[k] : k \in 1..Len(s)} :
                 \A k \in 1..Len(s) : m <= s[k]

RECURSIVE SeqSum(_)
SeqSum(s) == IF s = << >> THEN 0 ELSE Head(s) + SeqSum(Tail(s))

InSeq(x, s) == \E k \in 1..Len(s) : s[k] = x

\* --------------------------------------------------------- the data frame
HighsOf(df)  == [k \in 1..Len(df) |-> df[k].high]
LowsOf(df)   == [k \in 1..Len(df) |-> df[k].low]
ClosesOf(df) == [k \in 1..Len(df) |-> df[k].close]

\* df.index: ascending, unique timestamps, in minutes; 4h bars from 12:00
MinutesPerDay == 24 * 60
Timestamp(i) == 12 * 60 + IntervalMinutes * i

\* strftime('%Y-%m-%d') and strftime('%H:%M'): the day and the minute of day
DateStr(ts) == ts \div MinutesPerDay
TimeStr(ts) == ts % MinutesPerDay
\* datetime.strptime(Date + ' ' + Time, '%Y-%m-%d %H:%M')
ParseDateTime(d, t) == d * MinutesPerDay + t

\* ---------------------------------------------------------- swing extractor
\* the window without the + 1 that makes its right end inclusive
WindowExclusive(vals, i, l, r) == PySlice(vals, i - l, i + r)

\* the window without the bars to the left: highs[i:i+right+1]
WindowRightOnly(vals, i, l, r) == PySlice(vals, i, i + r + 1)

\* highs[i-left:i+right+1]
Window(vals, i, l, r) == PySlice(vals, i - l, i + r + 1)

\* the comprehension over range(left, len(highs)), without  - right
SwingHighsToEnd(highs, l, r) ==
    SelectSeq(PyRange(l, Len(highs)),
              LAMBDA i : At(highs, i) = SeqMax(Window(highs, i, l, r)))

\* the comprehension with != in place of ==
SwingHighsNotMax(highs, l, r) ==
    SelectSeq(PyRange(l, Len(highs) - r),
              LAMBDA i : At(highs, i) # SeqMax(Window(highs, i, l, r)))

\* [i for i in range(left, len(highs) - right) if highs[i] == window.max()]
SwingHighs(highs, l, r) ==
    SelectSeq(PyRange(l, Len(highs) - r),
              LAMBDA i : At(highs, i) = SeqMax(Window(highs, i, l, r)))

\* swing lows that must lie below every other bar of their window
SwingLowsStrict(lows, l, r) ==
    SelectSeq(PyRange(l, Len(lows) - r),
              LAMBDA i : \A k \in (i - l)..(i + r) :
                            k # i => At(lows, i) < At(lows, k))

\* [i for i in range(left, len(lows) - right) if lows[i] == window.min()]
SwingLows(lows, l, r) ==
    SelectSeq(PyRange(l, Len(lows) - r),
              LAMBDA i : At(lows, i) = SeqMin(Window(lows, i, l, r)))

\* the comprehension raises when an index falls outside the array
\* (IndexError) or a window is empty (ValueError from .max() / .min())
ExtractRaises(vals, l, r) ==
    \E k \in 1..Len(PyRange(l, Len(vals) - r)) :
        LET i == PyRange(l, Len(vals) - r)[k]
        IN  \/ i >= Len(vals)
            \/ i < 0 - Len(vals)
            \/ Window(vals, i, l, r) = << >>

\* -------------------------------------------------------------- break filter
\* the comparison of the high test turned round
BreaksHighReversed(highs, idx) ==
    idx > 0 /\ SeqMax(PySlice(highs, 0, idx)) < At(highs, idx)

\* the break test with >= in place of >
BreaksHighOrEqual(highs, idx) ==
    idx > 0 /\ SeqMax(PySlice(highs, 0, idx)) >= At(highs, idx)

\* idx > 0 and np.max(highs[:idx]) > highs[idx]
BreaksHigh(highs, idx) ==
    idx > 0 /\ SeqMax(PySlice(highs, 0, idx)) > At(highs, idx)

\* the comparison of the low test turned round
BreaksLowReversed(lows, idx) ==
    idx > 0 /\ SeqMin(PySlice(lows, 0, idx)) > At(lows, idx)

\* the low test with <= in place of <
BreaksLowOrEqual(lows, idx) ==
    idx > 0 /\ SeqMin(PySlice(lows, 0, idx)) <= At(lows, idx)

\* idx > 0 and np.min(lows[:idx]) < lows[idx]
BreaksLow(lows, idx) ==
    idx > 0 /\ SeqMin(PySlice(lows, 0, idx)) < At(lows, idx)

Resistances(highs, sh) == SelectSeq(sh, LAMBDA idx : BreaksHigh(highs, idx))
Supports(lows, sl)     == SelectSeq(sl, LAMBDA idx : BreaksLow(lows, idx))

\* one entry of block_details
ResistanceDetail(df, idx) ==
    [Date   |-> DateStr(Timestamp(idx)),
     Time   |-> TimeStr(Timestamp(idx)),
     Type   |-> "Resistance",
     Price  |-> At(HighsOf(df), idx),
     Candle |-> idx]

SupportDetail(df, idx) ==
    [Date   |-> DateStr(Timestamp(idx)),
     Time   |-> TimeStr(Timestamp(idx)),
     Type   |-> "Support",
     Price  |-> At(LowsOf(df), idx),
     Candle |-> idx]

\* blocks after both loops: the resistance entries, then the support entries
BlocksOf(df, sh, sl) ==
    LET rs == Resistances(HighsOf(df), sh)
        ss == Supports(LowsOf(df), sl)
    IN  [k \in 1..Len(rs) |-> <<"resistance", rs[k]>>]
        \o [k \in 1..Len(ss) |-> <<"support", ss[k]>>]

BlockDetailsOf(df, sh, sl) ==
    LET rs == Resistances(HighsOf(df), sh)
        ss == Supports(LowsOf(df), sl)
    IN  [k \in 1..Len(rs) |-> ResistanceDetail(df, rs[k])]
        \o [k \in 1..Len(ss) |-> SupportDetail(df, ss[k])]

\* ------------------------------------------------------------------ markers
\* the markers with the two offsets swapped
MarkerYSwapped(df, kind, idx) ==
    LET high   == At(HighsOf(df), idx)
        low    == At(LowsOf(df), idx)
        height == high - low
    IN  IF kind = "resistance" THEN OffsetDen * high - height
                               ELSE OffsetDen * low + height

\* OffsetDen * y, with y = high + height * 0.2 or y = low - height * 0.2
MarkerY(df, kind, idx) ==
    LET high   == At(HighsOf(df), idx)
        low    == At(LowsOf(df), idx)
        height == high - low
    IN  IF kind = "resistance" THEN OffsetDen * high + height
                               ELSE OffsetDen * low - height

Annotation(df, b) ==
    [x    |-> Timestamp(b[2]),
     y    |-> MarkerY(df, b[1], b[2]),
     ay   |-> IF b[1] = "resistance" THEN 0 - 20 ELSE 20,
     text |-> IF b[1] = "resistance" THEN "RES" ELSE "SUP"]

AnnotationsOf(df, bs) == [k \in 1..Len(bs) |-> Annotation(df, bs[k])]

\* ---------------------------------------------------------- level clusterer
\* the tolerance test with <= in place of <
WithinOrEqual(level, price, df) ==
    TolDen * Len(df) * Abs(level - price) <= SeqSum(ClosesOf(df))

\* abs(level - price) < tolerance, tolerance = 0.01 * df['Close'].mean()
Within(level, price, df) ==
    TolDen * Len(df) * Abs(level - price) < SeqSum(ClosesOf(df))

\* the inner loop testing a level's latest member in place of its key
FirstFitLastMember(lv, price, df) ==
    LET last(k) == lv[k].members[Len(lv[k].members)].Price
    IN  IF \E k \in 1..Len(lv) : Within(last(k), price, df)
        THEN CHOOSE k \in 1..Len(lv) :
                 /\ Within(last(k), price, df)
                 /\ \A j \in 1..(k - 1) : ~Within(last(j), price, df)
        ELSE 0

\* the position of the first key of levels, in insertion order, that the
\* inner loop breaks on; 0 when the loop ends with found = False
FirstFit(lv, price, df) ==
    IF \E k \in 1..Len(lv) : Within(lv[k].key, price, df)
    THEN CHOOSE k \in 1..Len(lv) :
             /\ Within(lv[k].key, price, df)
             /\ \A j \in 1..(k - 1) : ~Within(lv[j].key, price, df)
    ELSE 0

\* levels kept as a list of (price, members) pairs: a new pair every time
DictSetAppends(lv, price, b) == Append(lv, [key |-> price, members |-> <<b>>])

\* levels[price] = [b]: a dict assignment; an existing key keeps its place
\* in the insertion order and gets the new one-element list
DictSet(lv, price, b) ==
    IF \E k \in 1..Len(lv) : lv[k].key = price
    THEN [k \in 1..Len(lv) |->
             IF lv[k].key = price THEN [key |-> price, members |-> <<b>>]
                                  ELSE lv[k]]
    ELSE Append(lv, [key |-> price, members |-> <<b>>])

\* the iteration without the  if not found  test: a new cluster is opened
\* for every point
ClusterPointAlwaysOpens(lv, b, df) ==
    LET k == FirstFit(lv, b.Price, df)
        joined == IF k > 0 THEN [lv EXCEPT ![k].members = Append(@, b)]
                  ELSE lv
    IN  DictSet(joined, b.Price, b)

\* one iteration of  for b in block_details
ClusterPoint(lv, b, df) ==
    LET k == FirstFit(lv, b.Price, df)
    IN  IF k > 0
        THEN [lv EXCEPT ![k].members = Append(@, b)]
        ELSE DictSet(lv, b.Price, b)

\* the whole loop  for b in block_details, from an empty dict
RECURSIVE ClusterAll(_, _)
ClusterAll(details, bars) ==
    IF details = << >> THEN << >>
    ELSE ClusterPoint(ClusterAll(SubSeq(details, 1, Len(details) - 1), bars),
                      details[Len(details)], bars)

\* ------------------------------------------------------------------ segments
\* the line spanning the members' times of day, their dates left out
ShapeTimeOnly(level) ==
    LET stamps == [k \in 1..Len(level.members) |-> level.members[k].Time]
    IN  [x0    |-> SeqMin(stamps),
         x1    |-> SeqMax(stamps),
         y0    |-> level.key,
         y1    |-> level.key,
         color |-> IF level.members[1].Type = "Support"
                   THEN "#4361ee" ELSE "#f72585"]

\* the line coloured by the kind of the level's last member
ShapeLastKind(level) ==
    LET stamps == [k \in 1..Len(level.members) |->
                      ParseDateTime(level.members[k].Date,
                                    level.members[k].Time)]
    IN  [x0    |-> SeqMin(stamps),
         x1    |-> SeqMax(stamps),
         y0    |-> level.key,
         y1    |-> level.key,
         color |-> IF level.members[Len(level.members)].Type = "Support"
                   THEN "#4361ee" ELSE "#f72585"]

\* the line drawn for one level with at least two touches
Shape(level) ==
    LET stamps == [k \in 1..Len(level.members) |->
                      ParseDateTime(level.members[k].Date,
                                    level.members[k].Time)]
    IN  [x0    |-> SeqMin(stamps),
         x1    |-> SeqMax(stamps),
         y0    |-> level.key,
         y1    |-> level.key,
         color |-> IF level.members[1].Type = "Support"
                   THEN "#4361ee" ELSE "#f72585"]

\* the touch test with > in place of >=
SignificantStrict(level) == Len(level.members) > MinTouches

\* len(blocks) >= 2
Significant(level) == Len(level.members) >= MinTouches

ShapesOf(lv) ==
    LET kept == SelectSeq(lv, Significant)
    IN  [k \in 1..Len(kept) |-> Shape(kept[k])]

\* ------------------------------------------------------------- results table
\* the order of a sort by Time alone
KeyLETimeOnly(a, b) == a.Time <= b.Time

\* the order of sort_values(by=['Date', 'Time'])
KeyLE(a, b) == a.Date < b.Date \/ (a.Date = b.Date /\ a.Time <= b.Time)

\* row goes after every row of the sorted prefix whose key is <= its own
RECURSIVE InsertRow(_, _)
InsertRow(sorted, row) ==
    IF sorted = << >> THEN <<row>>
    ELSE IF KeyLE(sorted[Len(sorted)], row) THEN Append(sorted, row)
    ELSE Append(InsertRow(SubSeq(sorted, 1, Len(sorted) - 1), row),
                sorted[Len(sorted)])

RECURSIVE SortValues(_)
SortValues(rows) ==
    IF rows = << >> THEN << >>
    ELSE InsertRow(SortValues(SubSeq(rows, 1, Len(rows) - 1)),
                   rows[Len(rows)])

\* pd.DataFrame(block_details), sorted when not empty
DfBlocksOf(details) == IF details = << >> THEN << >> ELSE SortValues(details)

\* -------------------------------------------------------------------- state
VARIABLES
    df,             \* the bars handed to plot_smart_money_sr
    left, right,    \* the window sizes
    pc,             \* where the call stands
    swing_highs, swing_lows,
    blocks, block_details,
    annotations,    \* fig.add_annotation calls, in order
    levels,         \* the dict of clusters, in insertion order
    bi,             \* block_details entries the clustering loop has taken
    shapes,         \* fig.add_shape calls, in order
    df_blocks,      \* the returned table
    calls,          \* calls of plot_smart_money_sr so far, this one included
    stored,         \* st.session_state.fig and st.session_state.df_blocks
    session,        \* st.session_state: run_analysis, symbol, interval
    sidebar         \* this script run's symbol, interval and Run button

vars == <<df, left, right, pc, swing_highs, swing_lows, blocks,
          block_details, annotations, levels, bi, shapes, df_blocks,
          calls, stored, session, sidebar>>

\* session_state before any result is stored: fig = None, an empty table.
\* fig is kept as a sequence: empty for None, else the one figure.
NoResult == [fig |-> << >>, df_blocks |-> << >>]

\* run_analysis = False; symbol and interval are not set before the first
\* successful run
NoSession == [run_analysis |-> FALSE, symbol |-> "unset", interval |-> "unset"]

\* the sidebar as the first script run finds it: the first asset, the
\* timeframe at index 4, the button not pressed
DefaultSidebar == [symbol |-> "BTC-USD", interval |-> "1h", pressed |-> FALSE]

BarSeqs == UNION {[1..n -> BarAlphabet] : n \in 0..MaxN}

Init ==
    /\ df \in BarSeqs
    /\ left \in Windows
    /\ right \in Windows
    /\ pc = "extract"
    /\ swing_highs = << >>
    /\ swing_lows = << >>
    /\ blocks = << >>
    /\ block_details = << >>
    /\ annotations = << >>
    /\ levels = << >>
    /\ bi = 0
    /\ shapes = << >>
    /\ df_blocks = << >>
    /\ calls = 1
    /\ stored = NoResult
    /\ session = NoSession
    /\ sidebar = DefaultSidebar

\* lines 392-397
Extract ==
    /\ pc = "extract"
    /\ IF ExtractRaises(HighsOf(df), left, right)
          \/ ExtractRaises(LowsOf(df), left, right)
       THEN /\ pc' = "raised"
            /\ UNCHANGED <<swing_highs, swing_lows>>
       ELSE /\ swing_highs' = SwingHighs(HighsOf(df), left, right)
            /\ swing_lows' = SwingLows(LowsOf(df), left, right)
            /\ pc' = "filter"
    /\ UNCHANGED <<session, sidebar, calls, stored, df, left, right, blocks, block_details, annotations,
                   levels, bi, shapes, df_blocks>>

\* lines 399-420
Filter ==
    /\ pc = "filter"
    /\ blocks' = BlocksOf(df, swing_highs, swing_lows)
    /\ block_details' = BlockDetailsOf(df, swing_highs, swing_lows)
    /\ pc' = "annotate"
    /\ UNCHANGED <<session, sidebar, calls, stored, df, left, right, swing_highs, swing_lows, annotations,
                   levels, bi, shapes, df_blocks>>

\* lines 435-475: the markers, then the test  if block_details
Annotate ==
    /\ pc = "annotate"
    /\ annotations' = AnnotationsOf(df, blocks)
    /\ pc' = IF block_details = << >> THEN "table" ELSE "cluster"
    /\ UNCHANGED <<session, sidebar, calls, stored, df, left, right, swing_highs, swing_lows, blocks,
                   block_details, levels, bi, shapes, df_blocks>>

\* lines 479-488: one iteration of the clustering loop
Cluster ==
    /\ pc = "cluster"
    /\ bi < Len(block_details)
    /\ levels' = ClusterPoint(levels, block_details[bi + 1], df)
    /\ bi' = bi + 1
    /\ UNCHANGED <<session, sidebar, calls, stored, df, left, right, pc, swing_highs, swing_lows, blocks,
                   block_details, annotations, shapes, df_blocks>>

\* lines 491-506: the loop over levels.items(), which rebinds blocks
Segments ==
    /\ pc = "cluster"
    /\ bi = Len(block_details)
    /\ shapes' = ShapesOf(levels)
    /\ blocks' = IF levels = << >> THEN blocks
                 ELSE levels[Len(levels)].members
    /\ pc' = "table"
    /\ UNCHANGED <<session, sidebar, calls, stored, df, left, right, swing_highs, swing_lows, block_details,
                   annotations, levels, bi, df_blocks>>

\* lines 551-555
Table ==
    /\ pc = "table"
    /\ df_blocks' = DfBlocksOf(block_details)
    /\ pc' = "done"
    /\ UNCHANGED <<session, sidebar, calls, stored, df, left, right, swing_highs, swing_lows, blocks,
                   block_details, annotations, levels, bi, shapes>>

Next == Extract \/ Filter \/ Annotate \/ Cluster \/ Segments \/ Table

Spec == Init /\ [][Next]_vars

\* ------------------------------------------------- a second call, same inputs
\* lines 828-830: the returned fig and table go to the session state
Store ==
    /\ pc = "done"
    /\ stored' = [fig |-> <<[annotations |-> annotations, shapes |-> shapes]>>,
                  df_blocks |-> df_blocks]
    /\ pc' = "stored"
    /\ UNCHANGED <<session, sidebar, calls, df, left, right, swing_highs,
                   swing_lows, blocks, block_details, annotations, levels, bi,
                   shapes, df_blocks>>

\* a rerun that calls again but finds the dict of the call before
RerunSharedLevels ==
    /\ pc = "stored"
    /\ calls < 2
    /\ calls' = calls + 1
    /\ pc' = "extract"
    /\ swing_highs' = << >>
    /\ swing_lows' = << >>
    /\ blocks' = << >>
    /\ block_details' = << >>
    /\ annotations' = << >>
    /\ bi' = 0
    /\ shapes' = << >>
    /\ df_blocks' = << >>
    /\ UNCHANGED <<session, sidebar, levels, stored, df, left, right>>

\* lines 804-826: the script runs again with run_analysis still set and the
\* sidebar and the downloaded bars as before, and calls
\* plot_smart_money_sr again; the call starts with its own locals and a
\* new figure
Rerun ==
    /\ pc = "stored"
    /\ calls < 2
    /\ calls' = calls + 1
    /\ pc' = "extract"
    /\ swing_highs' = << >>
    /\ swing_lows' = << >>
    /\ blocks' = << >>
    /\ block_details' = << >>
    /\ annotations' = << >>
    /\ levels' = << >>
    /\ bi' = 0
    /\ shapes' = << >>
    /\ df_blocks' = << >>
    /\ UNCHANGED <<session, sidebar, stored, df, left, right>>

NextRerun == Next \/ Store \/ Rerun

SpecRerun == Init /\ [][NextRerun]_vars

\* ---------------------------------------------------- V-shaped bar sequences
\* 20 bars whose price falls by down a bar over the first 10 bars and rises
\* by up a bar over the last 10; bar 10 stands jump above the lowest bar 9
\* (below it for a negative jump); each bar is height tall and closes at
\* its high
VBars(base, down, up, jump, height) ==
    [k \in 1..20 |->
        LET p == IF k <= 10 THEN base + down * (10 - k)
                 ELSE base + jump + up * (k - 11)
        IN  [high |-> p + height, low |-> p, close |-> p + height]]

VSeqs == { VBars(base, down, up, jump, height) :
              base \in {100, 200}, down \in {1, 2}, up \in {1, 2},
              jump \in {0 - 3, 0 - 1, 0, 1, 3}, height \in {0, 1} }

\* the call on a V-shaped sequence with left = right = 3
InitV ==
    /\ df \in VSeqs
    /\ left = 3
    /\ right = 3
    /\ pc = "extract"
    /\ swing_highs = << >>
    /\ swing_lows = << >>
    /\ blocks = << >>
    /\ block_details = << >>
    /\ annotations = << >>
    /\ levels = << >>
    /\ bi = 0
    /\ shapes = << >>
    /\ df_blocks = << >>
    /\ calls = 1
    /\ stored = NoResult
    /\ session = NoSession
    /\ sidebar = DefaultSidebar

SpecV == (Init \/ InitV) /\ [][Next]_vars

\* ------------------------------------------------ bar sequences closing at 0
\* bars of three heights that all close at 0, so that the mean close and
\* the tolerance are 0 while the surviving prices differ
ZeroCloseBars ==
    { [high |-> 203, low |-> 0, close |-> 0],
      [high |-> 202, low |-> 0, close |-> 0],
      [high |-> 201, low |-> 0, close |-> 0] }

\* one bar longer than the other sequences: three surviving points at two
\* prices need seven bars
ZeroCloseSeqs == UNION {[1..n -> ZeroCloseBars] : n \in 0..(MaxN + 1)}

\* the call on a sequence of bars that close at 0
InitZ ==
    /\ df \in ZeroCloseSeqs
    /\ left \in Windows
    /\ right \in Windows
    /\ pc = "extract"
    /\ swing_highs = << >>
    /\ swing_lows = << >>
    /\ blocks = << >>
    /\ block_details = << >>
    /\ annotations = << >>
    /\ levels = << >>
    /\ bi = 0
    /\ shapes = << >>
    /\ df_blocks = << >>
    /\ calls = 1
    /\ stored = NoResult
    /\ session = NoSession
    /\ sidebar = DefaultSidebar

SpecZ == (Init \/ InitZ) /\ [][Next]_vars

\* ------------------------------------------------------- the app's rerun loop
\* Streamlit runs the script from top to bottom on every interaction; the
\* session state outlives the runs.  pc = "idle" between two runs, "stopped"
\* after a run that st.stop() ended, "except" when the try body has raised
\* and the handler is about to run.
Symbols == {"BTC-USD", "ETH-USD"}
Intervals == {"1h", "4h"}
Sidebars == [symbol : Symbols, interval : Intervals, pressed : BOOLEAN]

\* what download_data returns: a bar above 203 and then three equal bars.
\* The rows are the market's, whatever the timeframe asked for.
AppSeqs == { <<[high |-> 203, low |-> 0, close |-> 0], b, b, b>> :
                b \in BarAlphabet }

\* the state after the first script run (lines 797-801), in which the
\* button cannot have been pressed
InitApp ==
    /\ pc = "idle"
    /\ session = NoSession
    /\ stored = NoResult
    /\ sidebar = DefaultSidebar
    /\ left \in Windows
    /\ right \in Windows
    /\ df = << >>
    /\ swing_highs = << >>
    /\ swing_lows = << >>
    /\ blocks = << >>
    /\ block_details = << >>
    /\ annotations = << >>
    /\ levels = << >>
    /\ bi = 0
    /\ shapes = << >>
    /\ df_blocks = << >>
    /\ calls = 1

\* what a script run does once the widgets are read: nothing without
\* run_analysis; with it, one of the three outcomes of lines 804-826
ScriptRunBody(run) ==
    IF ~run
    THEN pc' = "idle" /\ df' = << >>
    ELSE \/ pc' = "stopped" /\ df' = << >>
         \/ pc' = "except" /\ df' = << >>
         \/ pc' = "extract" /\ df' \in AppSeqs

\* one script run up to the call of plot_smart_money_sr: the sidebar
\* widgets are read (lines 678-795, the button setting run_analysis), and
\* with run_analysis set the analysis section is entered (lines 804-826),
\* where validate_dates or download_data end the run with st.stop() (a
\* StopException is no Exception: the handler does not run), or the
\* download raises, or the bars arrive and the call starts
ScriptRun ==
    /\ pc \in {"idle", "stopped"}
    /\ \E sb \in Sidebars, l \in Windows, r \in Windows :
          /\ sidebar' = sb
          /\ left' = l
          /\ right' = r
          /\ session' = [session EXCEPT
                            !.run_analysis = session.run_analysis \/ sb.pressed]
          /\ ScriptRunBody(session.run_analysis \/ sb.pressed)
    /\ swing_highs' = << >>
    /\ swing_lows' = << >>
    /\ blocks' = << >>
    /\ block_details' = << >>
    /\ annotations' = << >>
    /\ levels' = << >>
    /\ bi' = 0
    /\ shapes' = << >>
    /\ df_blocks' = << >>
    /\ UNCHANGED <<calls, stored>>

\* an exception raised somewhere inside plot_smart_money_sr
AppRaise ==
    /\ pc \in {"extract", "filter", "annotate", "cluster", "table", "done"}
    /\ pc' = "except"
    /\ UNCHANGED <<session, sidebar, calls, stored, df, left, right,
                   swing_highs, swing_lows, blocks, block_details,
                   annotations, levels, bi, shapes, df_blocks>>

\* a store that also clears run_analysis: the analysis runs once a press
AppStoreOneShot ==
    /\ pc = "done"
    /\ stored' = [fig |-> <<[annotations |-> annotations, shapes |-> shapes]>>,
                  df_blocks |-> df_blocks]
    /\ session' = [run_analysis |-> FALSE, symbol |-> sidebar.symbol,
                   interval |-> sidebar.interval]
    /\ pc' = "idle"
    /\ UNCHANGED <<sidebar, calls, df, left, right, swing_highs, swing_lows,
                   blocks, block_details, annotations, levels, bi, shapes,
                   df_blocks>>

\* lines 828-833: the call has returned; fig, df_blocks, symbol and
\* interval go to the session state (symbol_name goes with symbol) and the
\* run ends
AppStore ==
    /\ pc = "done"
    /\ stored' = [fig |-> <<[annotations |-> annotations, shapes |-> shapes]>>,
                  df_blocks |-> df_blocks]
    /\ session' = [session EXCEPT !.symbol = sidebar.symbol,
                                  !.interval = sidebar.interval]
    /\ pc' = "idle"
    /\ UNCHANGED <<sidebar, calls, df, left, right, swing_highs, swing_lows,
                   blocks, block_details, annotations, levels, bi, shapes,
                   df_blocks>>

\* a handler that also drops the stored results
AppExceptClears ==
    /\ pc \in {"except", "raised"}
    /\ session' = [session EXCEPT !.run_analysis = FALSE]
    /\ stored' = NoResult
    /\ pc' = "idle"
    /\ UNCHANGED <<sidebar, calls, df, left, right, swing_highs, swing_lows,
                   blocks, block_details, annotations, levels, bi, shapes,
                   df_blocks>>

\* lines 835-837: except Exception: run_analysis = False
AppExcept ==
    /\ pc \in {"except", "raised"}
    /\ session' = [session EXCEPT !.run_analysis = FALSE]
    /\ pc' = "idle"
    /\ UNCHANGED <<sidebar, calls, stored, df, left, right, swing_highs,
                   swing_lows, blocks, block_details, annotations, levels, bi,
                   shapes, df_blocks>>

NextApp == ScriptRun \/ Next \/ AppRaise \/ AppStore \/ AppExcept

SpecApp == InitApp /\ [][NextApp]_vars

\* ===================================================================== claims
N == Len(df)
High(i) == df[i + 1].high
Low(i)  == df[i + 1].low

Extracted == pc \notin {"extract", "raised"}
Filtered  == pc \notin {"extract", "raised", "filter"}
Annotated == pc \notin {"extract", "raised", "filter", "annotate"}
Clustered == \/ pc \in {"table", "done"}
             \/ pc = "cluster" /\ bi = Len(block_details)

\* the closed window [i-left, i+right] as a set of bar indices
ClosedWindow(i) == (i - left)..(i + right)
Interior(i) == left <= i /\ i < N - right

IsWindowHigh(i) == \A j \in ClosedWindow(i) : High(j) <= High(i)
IsWindowLow(i)  == \A j \in ClosedWindow(i) : Low(i) <= Low(j)

\* a list of bar indices with no index twice
NoRepeat(s) == \A a, b \in 1..Len(s) : s[a] = s[b] => a = b

\* C1: once the extractor has run, bar i is in swing_highs exactly when
\* left <= i < N - right and high[i] is the largest high of the closed window
\* [i-left, i+right], and in swing_lows exactly when left <= i < N - right
\* and low[i] is the smallest low of that window; each index is emitted
\* once, so no swing lies in [0, left) or [N-right, N) and every index tied
\* for the window extreme is emitted.
C1_SwingIff ==
    Extracted =>
        /\ \A k \in 1..Len(swing_highs) : swing_highs[k] \in 0..(N - 1)
        /\ \A k \in 1..Len(swing_lows) : swing_lows[k] \in 0..(N - 1)
        /\ NoRepeat(swing_highs) /\ NoRepeat(swing_lows)
        /\ \A i \in 0..(N - 1) :
              /\ InSeq(i, swing_highs) <=> (Interior(i) /\ IsWindowHigh(i))
              /\ InSeq(i, swing_lows) <=> (Interior(i) /\ IsWindowLow(i))

\* C1 witness: an asymmetric window, two indices tied for the window high
\* both emitted, and an interior bar that is neither a swing high nor a
\* swing low
C1_Witness ==
    /\ pc = "filter"
    /\ left # right
    /\ \E i \in 0..(N - 2) : /\ InSeq(i, swing_highs)
                             /\ InSeq(i + 1, swing_highs)
    /\ \E i \in 0..(N - 1) : /\ Interior(i)
                             /\ ~InSeq(i, swing_highs)
                             /\ ~InSeq(i, swing_lows)

\* the break test, stated over the bars strictly before i
PriorHigher(i) == \E j \in 0..(i - 1) : High(j) > High(i)
PriorLower(i)  == \E j \in 0..(i - 1) : Low(j) < Low(i)

RetainedHighs == {i \in 0..(N - 1) :
                     InSeq(i, swing_highs) /\ i > 0 /\ PriorHigher(i)}
RetainedLows  == {i \in 0..(N - 1) :
                     InSeq(i, swing_lows) /\ i > 0 /\ PriorLower(i)}

\* the (Type, Candle) pairs of a list of block_details entries
PointsOf(rows) == {<<rows[k].Type, rows[k].Candle>> : k \in 1..Len(rows)}
RetainedPoints == {<<"Resistance", i>> : i \in RetainedHighs}
                  \cup {<<"Support", i>> : i \in RetainedLows}

MarkedPoints ==
    {<<IF annotations[k].text = "RES" THEN "Resistance" ELSE "Support",
       (annotations[k].x - Timestamp(0)) \div IntervalMinutes>> :
         k \in 1..Len(annotations)}

ClusteredPoints == UNION {PointsOf(levels[k].members) : k \in 1..Len(levels)}

InTolerance(p, q) == TolDen * N * Abs(p - q) < SeqSum(ClosesOf(df))
TolerancePositive == SeqSum(ClosesOf(df)) > 0

\* the reference first-fit procedure over an ordered collection of
\* clusters: a point joins the first cluster whose key is strictly within
\* tolerance, and otherwise opens a new cluster at the end
RefFit(cl, price) ==
    {k \in 1..Len(cl) : InTolerance(cl[k].key, price)}

RefAdd(cl, b) ==
    IF RefFit(cl, b.Price) # {}
    THEN LET k == CHOOSE k \in RefFit(cl, b.Price) :
                      \A j \in RefFit(cl, b.Price) : k <= j
         IN  [cl EXCEPT ![k].members = Append(@, b)]
    ELSE Append(cl, [key |-> b.Price, members |-> <<b>>])

RECURSIVE RefClusters(_)
RefClusters(points) ==
    IF points = << >> THEN << >>
    ELSE RefAdd(RefClusters(SubSeq(points, 1, Len(points) - 1)),
                points[Len(points)])

\* the surviving points in detection order: the Resistance points by
\* ascending bar index, then the Support points by ascending bar index
AscendingHighs == SelectSeq(PyRange(0, N), LAMBDA i : i \in RetainedHighs)
AscendingLows  == SelectSeq(PyRange(0, N), LAMBDA i : i \in RetainedLows)
DetectionOrder ==
    [k \in 1..Len(AscendingHighs) |->
        [Date |-> Timestamp(AscendingHighs[k]) \div MinutesPerDay,
         Time |-> Timestamp(AscendingHighs[k]) % MinutesPerDay,
         Type |-> "Resistance", Price |-> High(AscendingHighs[k]),
         Candle |-> AscendingHighs[k]]]
    \o [k \in 1..Len(AscendingLows) |->
        [Date |-> Timestamp(AscendingLows[k]) \div MinutesPerDay,
         Time |-> Timestamp(AscendingLows[k]) % MinutesPerDay,
         Type |-> "Support", Price |-> Low(AscendingLows[k]),
         Candle |-> AscendingLows[k]]]

\* C3: once every surviving point is clustered, the clusters are those the
\* reference first-fit procedure builds from the points in detection order:
\* each point in the first cluster, in insertion order, whose key is
\* strictly within tolerance, else in a new cluster keyed by its own price.
C3_FirstFitReference ==
    (Clustered /\ block_details # << >>) =>
        levels = RefClusters(DetectionOrder)

\* the code agrees with the reference procedure at every step of the loop
\* whenever the tolerance is positive
FirstFitWhenPositive ==
    (Annotated /\ TolerancePositive) =>
        levels = RefClusters(SubSeq(DetectionOrder, 1, bi))

\* a cluster's size
Touches(level) == Len(level.members)
MultiTouch == {k \in 1..Len(levels) : Touches(levels[k]) >= 2}

\* the example of the clustering test: surviving prices 100.0, 100.3 and
\* 150.0 with mean close 100, in tenths
ExampleBars == <<[high |-> 1000, low |-> 1000, close |-> 1000]>>
ExamplePoints ==
    [k \in 1..3 |-> [Date |-> 0, Time |-> k, Type |-> "Resistance",
                     Price |-> <<1000, 1003, 1500>>[k], Candle |-> k]]
ExampleShapes == ShapesOf(ClusterAll(ExamplePoints, ExampleBars))

\* C4: once the segments are emitted there is exactly one segment for each
\* cluster with 2 or more members, at the cluster's key, and none for a
\* cluster with one member (none at all when no point survives); surviving
\* prices 100.0, 100.3, 150.0 with tolerance 1.0 give exactly one segment,
\* at 100.0.
C4_OneSegmentPerMultiTouch ==
    /\ pc \in {"table", "done"} =>
          /\ Len(shapes) = Cardinality(MultiTouch)
          /\ \A k \in 1..Len(levels) :
                Cardinality({j \in 1..Len(shapes) :
                                /\ shapes[j].y0 = levels[k].key
                                /\ shapes[j].y1 = levels[k].key})
                  = IF Touches(levels[k]) >= 2 THEN 1 ELSE 0
    /\ pc \notin {"table", "done"} => shapes = << >>
    /\ Len(ExampleShapes) = 1
    /\ ExampleShapes[1].y0 = 1000

\* C4 witness: the segments are emitted, one cluster has two or more
\* members and a segment, another has a single member and none
C4_Witness ==
    /\ pc = "done"
    /\ \E k \in 1..Len(levels) : Touches(levels[k]) >= 2
    /\ \E k \in 1..Len(levels) :
          /\ Touches(levels[k]) = 1
          /\ \A j \in 1..Len(shapes) : shapes[j].y0 # levels[k].key
    /\ Len(shapes) = 1

\* C5: every cluster holds points of one kind only.
C5_KindUniform ==
    \A k \in 1..Len(levels) :
        \A a, b \in 1..Len(levels[k].members) :
            levels[k].members[a].Type = levels[k].members[b].Type

\* the positions of block_details a cluster holds
SameCluster(a, b) ==
    \E k \in 1..Len(levels) :
        /\ InSeq(block_details[a], levels[k].members)
        /\ InSeq(block_details[b], levels[k].members)

\* C6 as claimed: once every point is clustered, two different surviving
\* points are in the same cluster exactly when their prices differ by
\* strictly less than the tolerance.
C6_SameClusterIffClose ==
    Clustered =>
        \A a, b \in 1..Len(block_details) :
            a # b => (SameCluster(a, b) <=>
                        InTolerance(block_details[a].Price,
                                    block_details[b].Price))

\* C6 amended: at every step of the clustering loop every member of a
\* cluster other than its first has a price strictly within tolerance of
\* the cluster's key, the first member's price is the key, and so two
\* points of one cluster differ by strictly less than twice the tolerance.
C6_MembersNearKey ==
    \A k \in 1..Len(levels) :
        LET m == levels[k].members
        IN  /\ m # << >>
            /\ m[1].Price = levels[k].key
            /\ \A a \in 2..Len(m) : InTolerance(levels[k].key, m[a].Price)
            /\ \A a, b \in 1..Len(m) :
                  a # b => TolDen * N * Abs(m[a].Price - m[b].Price)
                             < 2 * SeqSum(ClosesOf(df))

\* C6 witness: every point is clustered, and one cluster holds two points
\* whose prices are not within tolerance of each other
C6_Witness ==
    /\ pc = "done"
    /\ \E k \in 1..Len(levels) :
          \E a, b \in 1..Len(levels[k].members) :
              /\ a # b
              /\ ~InTolerance(levels[k].members[a].Price,
                              levels[k].members[b].Price)

NothingProduced ==
    /\ swing_highs = << >> /\ swing_lows = << >>
    /\ block_details = << >>
    /\ annotations = << >>
    /\ levels = << >>
    /\ shapes = << >>
    /\ df_blocks = << >>

\* C7: with N <= left + right bars (N = 0 included) the call raises
\* nothing, runs on to its return, and produces no swing, no table row, no
\* marker and no segment.
C7_InsufficientData ==
    N <= left + right =>
        /\ pc # "raised"
        /\ NothingProduced
        /\ (pc = "done" \/ ENABLED Next)

\* C7 witness: the call has returned on as many bars as left + right
C7_Witness ==
    /\ pc = "done"
    /\ N = left + right
    /\ NothingProduced

\* C7 witness for no bars at all
C7_WitnessEmpty == pc = "done" /\ N = 0

Sorted(rows) == \A a, b \in 1..Len(rows) : a < b =>
                   \/ rows[a].Date < rows[b].Date
                   \/ /\ rows[a].Date = rows[b].Date
                      /\ rows[a].Time <= rows[b].Time

\* C8: the returned table has exactly one row for each surviving point, in
\* a cluster of two or more or not, with the point's Type, its Price and
\* its bar index; the rows ascend by (Date, Time), and so by bar index.
C8_ResultsTable ==
    pc = "done" =>
        /\ Len(df_blocks) = Cardinality(RetainedPoints)
        /\ PointsOf(df_blocks) = RetainedPoints
        /\ \A k \in 1..Len(df_blocks) :
              LET row == df_blocks[k]
              IN  /\ row.Price = IF row.Type = "Resistance"
                                 THEN High(row.Candle) ELSE Low(row.Candle)
                  /\ row.Date = Timestamp(row.Candle) \div MinutesPerDay
                  /\ row.Time = Timestamp(row.Candle) % MinutesPerDay
        /\ Sorted(df_blocks)
        /\ \A a, b \in 1..Len(df_blocks) :
              a < b => df_blocks[a].Candle <= df_blocks[b].Candle

\* C8 witness: a returned table whose rows are not in detection order (a
\* Support row precedes a Resistance row), that spans two dates, and that
\* lists a point of a single-member cluster
C8_Witness ==
    /\ pc = "done"
    /\ \E a, b \in 1..Len(df_blocks) :
          /\ a < b
          /\ df_blocks[a].Type = "Support"
          /\ df_blocks[b].Type = "Resistance"
          /\ df_blocks[a].Date < df_blocks[b].Date
    /\ \E k \in 1..Len(levels) :
          /\ Touches(levels[k]) = 1
          /\ InSeq(levels[k].members[1], df_blocks)

MarkersAt(text, i) ==
    {k \in 1..Len(annotations) :
        annotations[k].text = text /\ annotations[k].x = Timestamp(i)}

\* C9: once the markers are drawn there is exactly one marker for each
\* surviving point; a Resistance marker is at high + 0.2 * (high - low) of
\* its bar, never below the high, and a Support marker at
\* low - 0.2 * (high - low), never above the low.
C9_Markers ==
    Annotated =>
        /\ Len(annotations) = Cardinality(RetainedPoints)
        /\ \A i \in RetainedHighs :
              /\ Cardinality(MarkersAt("RES", i)) = 1
              /\ \A k \in MarkersAt("RES", i) :
                    /\ annotations[k].y = OffsetDen * High(i) + (High(i) - Low(i))
                    /\ annotations[k].y >= OffsetDen * High(i)
        /\ \A i \in RetainedLows :
              /\ Cardinality(MarkersAt("SUP", i)) = 1
              /\ \A k \in MarkersAt("SUP", i) :
                    /\ annotations[k].y = OffsetDen * Low(i) - (High(i) - Low(i))
                    /\ annotations[k].y <= OffsetDen * Low(i)

\* C9 witness: markers drawn for a Resistance point and a Support point of
\* bars whose high is above their low
C9_Witness ==
    /\ pc = "done"
    /\ \E i \in RetainedHighs : High(i) > Low(i)
    /\ \E i \in RetainedLows : High(i) > Low(i)
    /\ Len(annotations) >= 3

\* C10 as claimed: the swing highs and the swing lows together are at most
\* N.
C10_SwingCountAtMostN ==
    Len(swing_highs) + Len(swing_lows) <= N

InteriorCount == IF N > left + right THEN N - left - right ELSE 0

\* C10 amended: the swing highs are at most max(0, N - left - right), and
\* so are the swing lows; together they are at most twice that.
C10_SwingCountBound ==
    /\ Len(swing_highs) <= InteriorCount
    /\ Len(swing_lows) <= InteriorCount
    /\ Len(swing_highs) + Len(swing_lows) <= 2 * InteriorCount

\* C10 witness: the extractor has emitted more swings than there are bars
C10_Witness ==
    /\ Extracted
    /\ Len(swing_highs) + Len(swing_lows) > N
    /\ Len(swing_highs) = InteriorCount

SwingCount(l, r) ==
    Len(SwingHighs(HighsOf(df), l, r)) + Len(SwingLows(LowsOf(df), l, r))

\* C12: the swings found with the window (left, right) are no more than
\* those found with any window (l, r), 1 <= l <= left and 1 <= r <= right:
\* widening the window never adds a swing.
C12_WiderWindowFewerSwings ==
    Extracted =>
        \A l \in 1..left, r \in 1..right :
            Len(swing_highs) + Len(swing_lows) <= SwingCount(l, r)

\* C12 witness: the extractor has run with left = right = 2 and found
\* swings, strictly fewer than with left = right = 1 and than with (1, 2)
C12_Witness ==
    /\ Extracted
    /\ left = 2 /\ right = 2
    /\ Len(swing_highs) + Len(swing_lows) > 0
    /\ Len(swing_highs) + Len(swing_lows) < SwingCount(1, 2)
    /\ SwingCount(1, 2) < SwingCount(1, 1)

HighestHigh == SeqMax(HighsOf(df))
LowestLow   == SeqMin(LowsOf(df))

IsV ==
    /\ N = 20
    /\ \A i \in 0..8   : High(i) > High(i + 1) /\ Low(i) > Low(i + 1)
    /\ \A i \in 10..18 : High(i) < High(i + 1) /\ Low(i) < Low(i + 1)

VScenario == IsV /\ left = 3 /\ right = 3

Flat == \A i, j \in 0..(N - 1) : High(i) = High(j) /\ Low(i) = Low(j)

\* C15: on a flat series every interior index left <= i < N - right is
\* emitted as a swing high and as a swing low (once each), the break filter
\* drops every one of them, and the call ends with no marker, no segment
\* and an empty table.
C15_FlatSeries ==
    Flat =>
        /\ Extracted =>
              /\ \A i \in 0..(N - 1) :
                    /\ InSeq(i, swing_highs) <=> Interior(i)
                    /\ InSeq(i, swing_lows) <=> Interior(i)
              /\ NoRepeat(swing_highs) /\ NoRepeat(swing_lows)
              /\ Len(swing_highs) = InteriorCount
              /\ Len(swing_lows) = InteriorCount
        /\ Filtered => blocks = << >> /\ block_details = << >>
        /\ pc = "done" =>
              /\ annotations = << >>
              /\ levels = << >>
              /\ shapes = << >>
              /\ df_blocks = << >>

\* a flat series with three interior bars has run to its return
C15_Witness ==
    /\ Flat
    /\ pc = "done"
    /\ Len(swing_highs) >= 3
    /\ swing_lows = swing_highs
    /\ df_blocks = << >>

\* ------------------------------------------------------------------- C16
\* bar i is more extreme than every bar before it
AboveAllBefore(i) == \A j \in 0..(i - 1) : High(j) < High(i)
BelowAllBefore(i) == \A j \in 0..(i - 1) : Low(i) < Low(j)

\* bar i is at least as extreme as every bar before it
NoneHigherBefore(i) == \A j \in 0..(i - 1) : High(j) <= High(i)
NoneLowerBefore(i)  == \A j \in 0..(i - 1) : Low(i) <= Low(j)

KeptLevels == SelectSeq(levels, LAMBDA lv : Touches(lv) >= 2)

ColorOfKind(kind) == IF kind = "Support" THEN "#4361ee" ELSE "#f72585"

\* a cluster holding a Resistance point and a Support point
Mixed(level) ==
    \E a, b \in 1..Len(level.members) :
        /\ level.members[a].Type = "Resistance"
        /\ level.members[b].Type = "Support"

\* C17: a cluster's first member is the point whose price is the key, at
\* every step; the segments are those of the clusters with two or more
\* members, in order, each coloured by the kind of its cluster's first
\* member whatever the kinds of the other members; a cluster can hold a
\* Resistance point and a Support point (the witness).
C17_FirstMemberKind ==
    /\ \A k \in 1..Len(levels) :
          /\ levels[k].members # << >>
          /\ levels[k].members[1].Price = levels[k].key
    /\ pc \in {"table", "done"} =>
          /\ Len(shapes) = Len(KeptLevels)
          /\ \A j \in 1..Len(KeptLevels) :
                /\ shapes[j].y0 = KeptLevels[j].key
                /\ shapes[j].color = ColorOfKind(KeptLevels[j].members[1].Type)

\* a Support point has joined a cluster opened by a Resistance point of
\* another price, and the segment of the cluster has the Resistance colour
C17_Witness ==
    /\ pc = "done"
    /\ \E j \in 1..Len(KeptLevels) :
          /\ Mixed(KeptLevels[j])
          /\ KeptLevels[j].members[1].Type = "Resistance"
          /\ KeptLevels[j].members[Len(KeptLevels[j].members)].Type = "Support"
          /\ KeptLevels[j].members[Len(KeptLevels[j].members)].Price
                # KeptLevels[j].key
          /\ shapes[j].color = "#f72585"

\* ------------------------------------------------------------------- C18
\* the timestamps of the bars a cluster's members sit on
MemberStamps(level) ==
    {Timestamp(level.members[k].Candle) : k \in 1..Len(level.members)}

\* the position in block_details of a cluster's k-th member
PositionOf(b) == CHOOSE a \in 1..Len(block_details) : block_details[a] = b

\* C18: a cluster's members are in the order they were assigned, and the
\* key is the price of the first of them at every step of the loop; the
\* segment of a cluster with two or more members is drawn at the key
\* (y0 = y1 = key) from the earliest to the latest of the members'
\* timestamps, so x0 <= x1 and every member's timestamp is in [x0, x1].
C18_SegmentGeometry ==
    /\ \A k \in 1..Len(levels) :
          /\ levels[k].members # << >>
          /\ levels[k].key = levels[k].members[1].Price
          /\ \A a, b \in 1..Len(levels[k].members) :
                a < b => PositionOf(levels[k].members[a])
                            < PositionOf(levels[k].members[b])
    /\ pc \in {"table", "done"} =>
          /\ Len(shapes) = Len(KeptLevels)
          /\ \A j \in 1..Len(KeptLevels) :
                LET stamps == MemberStamps(KeptLevels[j])
                IN  /\ shapes[j].y0 = KeptLevels[j].key
                    /\ shapes[j].y1 = KeptLevels[j].key
                    /\ shapes[j].x0 \in stamps
                    /\ shapes[j].x1 \in stamps
                    /\ \A t \in stamps : shapes[j].x0 <= t /\ t <= shapes[j].x1
                    /\ shapes[j].x0 <= shapes[j].x1

\* a segment over three members on two dates, the last member's price off
\* the key, the latest timestamp not the last member's
C18_Witness ==
    /\ pc = "done"
    /\ \E j \in 1..Len(KeptLevels) :
          LET ms == KeptLevels[j].members
          IN  /\ Len(ms) >= 3
              /\ ms[Len(ms)].Price # KeptLevels[j].key
              /\ ms[1].Date # ms[2].Date
              /\ Timestamp(ms[Len(ms)].Candle) < shapes[j].x1
              /\ shapes[j].x0 < shapes[j].x1

C20_KeysApart ==
    TolerancePositive =>
        /\ \A a, b \in 1..Len(levels) :
              a # b => /\ levels[a].key # levels[b].key
                       /\ ~InTolerance(levels[a].key, levels[b].key)
        /\ \A k \in 1..Len(levels) :
              \A m \in 1..Len(levels[k].members) :
                  InTolerance(levels[k].key, levels[k].members[m].Price)

\* in the middle of the loop, with a tolerance above 0: two clusters with
\* keys 1 or 2 apart, a cluster with a member off its key, and a point still
\* to be assigned
C20_Witness ==
    /\ TolerancePositive
    /\ pc = "cluster"
    /\ bi < Len(block_details)
    /\ \E a, b \in 1..Len(levels) :
          a # b /\ Abs(levels[a].key - levels[b].key) <= 2
    /\ \E k \in 1..Len(levels) :
          \E m \in 1..Len(levels[k].members) :
              levels[k].members[m].Price # levels[k].key

\* ------------------------------------------------------------------- C21
\* the places (cluster, position in the cluster) that hold the point b
PlacesOf(b) ==
    UNION { {<<k, m>> : m \in {n \in 1..Len(levels[k].members) :
                                   levels[k].members[n] = b}} :
            k \in 1..Len(levels) }

RECURSIVE SizeSum(_)
SizeSum(lv) == IF lv = << >> THEN 0
               ELSE Touches(lv[Len(lv)]) + SizeSum(SubSeq(lv, 1, Len(lv) - 1))

\* C21: with a tolerance above 0, every point the clustering loop has taken
\* is a member of exactly one cluster, and a point it has not taken of none;
\* so after the loop the cluster sizes add up to the number of surviving
\* points, which is the number of rows of the results table, and twice the
\* number of segments is at most the number of surviving points.
C21_PointsConserved ==
    TolerancePositive =>
        /\ \A a \in 1..Len(block_details) :
              Cardinality(PlacesOf(block_details[a]))
                 = IF pc \in {"cluster", "table", "done"} /\ a <= bi THEN 1 ELSE 0
        /\ SizeSum(levels) = bi
        /\ Clustered => SizeSum(levels) = Len(block_details)
        /\ pc \in {"table", "done"} =>
              2 * Len(shapes) <= Len(block_details)
        /\ pc = "done" => SizeSum(levels) = Len(df_blocks)

\* a call with a tolerance above 0 has returned four rows, clustered into
\* two clusters of two points, each with its segment
C21_Witness ==
    /\ TolerancePositive
    /\ pc = "done"
    /\ Len(df_blocks) = 4
    /\ Len(levels) = 2
    /\ Len(shapes) = 2

\* ------------------------------------------------------------------- C22
\* the mean close is 0: tolerance = 0
ToleranceZero == N > 0 /\ SeqSum(ClosesOf(df)) = 0

\* the points of a given price that the clustering loop has taken
TakenAt(price) == {a \in 1..bi : block_details[a].Price = price}

\* C22: with a tolerance of 0 no price is within tolerance of any key, so
\* at every step of the loop every cluster has exactly one member: the
\* latest point taken at the price of its key, earlier points of that price
\* having been replaced; there is one cluster for each price taken, and no
\* segment is emitted, however many surviving points share a price.
C22_ZeroTolerance ==
    ToleranceZero =>
        /\ \A a, b \in 1..Len(block_details) :
              ~InTolerance(block_details[a].Price, block_details[b].Price)
        /\ \A k \in 1..Len(levels) :
              /\ Len(levels[k].members) = 1
              /\ levels[k].members[1].Price = levels[k].key
              /\ TakenAt(levels[k].key) # {}
              /\ \A a \in TakenAt(levels[k].key) :
                    a <= PositionOf(levels[k].members[1])
              /\ PositionOf(levels[k].members[1]) \in TakenAt(levels[k].key)
        /\ \A a, b \in 1..Len(levels) :
              a # b => levels[a].key # levels[b].key
        /\ {levels[k].key : k \in 1..Len(levels)}
              = {block_details[a].Price : a \in 1..bi}
        /\ shapes = << >>

\* with a tolerance of 0 the call has returned three rows, two of them at
\* one price: two clusters of one member, the earlier point of the shared
\* price in none of them, and no segment
C22_Witness ==
    /\ ToleranceZero
    /\ pc = "done"
    /\ Len(df_blocks) = 3
    /\ Len(levels) = 2
    /\ \E a \in 1..Len(block_details) : PlacesOf(block_details[a]) = {}
    /\ shapes = << >>

\* ------------------------------------------------------------------- C23
\* the try body has raised an Exception and the handler has not run yet
Raised == pc \in {"except", "raised"}

\* the stored results of the session: fig, df_blocks, symbol and interval
Results == <<stored.fig, stored.df_blocks, session.symbol, session.interval>>

\* C23: the step that handles an Exception of the analysis sets
\* run_analysis to False and leaves the stored fig, df_blocks, symbol and
\* interval as they are; no other step of a run changes any of them except
\* the one that ends a call that has returned, which stores all four
\* together, fig and df_blocks being those of that call and symbol and
\* interval those of that run's sidebar.  So a run that fails ends with the
\* stored results it started with.
C23_FailedRunKeepsResults ==
    [][ /\ Raised => /\ Results' = Results
                     /\ ~session'.run_analysis
                     /\ pc' = "idle"
        /\ Results' # Results =>
              /\ pc = "done"
              /\ pc' = "idle"
              /\ stored'.fig = <<[annotations |-> annotations, shapes |-> shapes]>>
              /\ stored'.df_blocks = df_blocks
              /\ session'.symbol = sidebar.symbol
              /\ session'.interval = sidebar.interval
      ]_vars

\* a run has failed inside the call, for a symbol and a timeframe other than
\* the stored ones, after an earlier run stored a table with rows and a
\* segment: the handler has run, and the earlier results are still there
C23_Witness ==
    /\ pc = "idle"
    /\ ~session.run_analysis
    /\ df # << >>
    /\ stored # NoResult
    /\ stored.df_blocks # << >>
    /\ stored.fig # << >>
    /\ stored.fig[1].shapes # << >>
    /\ session.symbol \in Symbols
    /\ session.symbol # sidebar.symbol
    /\ session.interval # sidebar.interval

\* ------------------------------------------------------------------- C24
\* between two script runs
Resting == pc \in {"idle", "stopped"}

\* the table plot_smart_money_sr returns for the bars and the window sizes
\* of the run
TableOfRun ==
    DfBlocksOf(BlockDetailsOf(df, SwingHighs(HighsOf(df), left, right),
                              SwingLows(LowsOf(df), left, right)))

\* C24: run_analysis goes from True to False only in the step that handles
\* an Exception; the step that ends an analysis that completed leaves it
\* True; and with run_analysis True every script run, the button pressed or
\* not, enters the analysis section again (the call starts, or the run is
\* stopped, or it raises), the call being made on the sliders' values of
\* that run and its table being the one stored.
C24_RunFlagSticky ==
    [][ /\ (session.run_analysis /\ ~session'.run_analysis) => Raised
        /\ (pc = "done" /\ pc' = "idle") =>
              /\ session.run_analysis
              /\ session'.run_analysis
              /\ stored'.df_blocks = TableOfRun
        /\ (Resting /\ session.run_analysis) =>
              /\ session'.run_analysis
              /\ pc' \in {"extract", "stopped", "except"}
      ]_vars

\* a run in which the button was not pressed has completed an analysis with
\* rows, for another symbol and with another table than the stored ones of
\* an earlier run
C24_Witness ==
    /\ pc = "done"
    /\ ~sidebar.pressed
    /\ session.run_analysis
    /\ stored # NoResult
    /\ df_blocks # << >>
    /\ stored.df_blocks # df_blocks
    /\ session.symbol \in Symbols
    /\ session.symbol # sidebar.symbol
====
